---- MODULE Spec2Model ----
(***************************************************************************)
(* Bottle thermal simulation (src/src/main.rs): the Simulation object, its *)
(* step(dt) physics update and the driver's input handlers.                *)
(*                                                                         *)
(* Numbers.  The program computes in f32.  The model computes in exact     *)
(* rational arithmetic: a number is a record [n |-> numerator,             *)
(* d |-> denominator] in lowest terms with d > 0.  A value whose numerator *)
(* or denominator would leave -MaxNum..MaxNum is NaR ("not representable", *)
(* d = 0); NaR propagates through arithmetic, every comparison with NaR is *)
(* FALSE, and a step that meets NaR anywhere is not taken (the model stops *)
(* exploring there instead of computing with a wrong value).               *)
(***************************************************************************)
EXTENDS Integers, Sequences, FiniteSets, TLC

\* ------------------------------------------------------------------ bounds
\* Largest numerator / denominator the model computes with.
MaxNum == 1000000000
\* step is explored while time_seconds is below this many simulated seconds.
MaxTime == 3
\* Number of init-field edits explored after the initial configuration.
MaxEdits == 1
\* Frame times (seconds) the driver passes to step: none, a short frame, a stall.
ShortFrame == 1
StallFrame == 60
\* Melting scenario: explored while time_seconds is below this many seconds.
MeltHorizon == 300

\* --------------------------------------------------------------- rationals
NaR == [n |-> 0, d |-> 0]
IsNum(a) == a.d > 0
Abs(x) == IF x < 0 THEN -x ELSE x

RECURSIVE GCD(_, _)
GCD(a, b) == IF b = 0 THEN a ELSE GCD(b, a % b)

MulOk(x, y) == x = 0 \/ y = 0 \/ Abs(x) <= MaxNum \div Abs(y)

\* n/d in lowest terms (d > 0), or NaR when out of range.
Rat(n, d) ==
  LET g == GCD(Abs(n), d)
      nn == n \div g
      dd == d \div g
  IN IF Abs(nn) <= MaxNum /\ dd <= MaxNum THEN [n |-> nn, d |-> dd] ELSE NaR

R(i) == [n |-> i, d |-> 1]
Zero == R(0)

Neg(a) == IF IsNum(a) THEN [n |-> -a.n, d |-> a.d] ELSE NaR

Add(a, b) ==
  IF ~IsNum(a) \/ ~IsNum(b) THEN NaR
  ELSE LET g == GCD(a.d, b.d)
           ad == a.d \div g
           bd == b.d \div g
       IN IF MulOk(a.n, bd) /\ MulOk(b.n, ad) /\ MulOk(a.d, bd)
          THEN Rat(a.n * bd + b.n * ad, a.d * bd)
          ELSE NaR

Sub(a, b) == Add(a, Neg(b))

Mul(a, b) ==
  IF ~IsNum(a) \/ ~IsNum(b) THEN NaR
  ELSE LET g1 == GCD(Abs(a.n), b.d)
           g2 == GCD(Abs(b.n), a.d)
           n1 == a.n \div g1
           n2 == b.n \div g2
           d1 == a.d \div g2
           d2 == b.d \div g1
       IN IF MulOk(n1, n2) /\ MulOk(d1, d2)
          THEN [n |-> n1 * n2, d |-> d1 * d2]
          ELSE NaR

\* a / b; a division by zero is not representable.
Div(a, b) ==
  IF ~IsNum(a) \/ ~IsNum(b) \/ b.n = 0 THEN NaR
  ELSE Mul(a, IF b.n > 0 THEN [n |-> b.d, d |-> b.n] ELSE [n |-> -b.d, d |-> -b.n])

\* n1/d1 < n2/d2 for d1, d2 > 0, by integer parts and then the reciprocals of
\* the fractional parts: no product is formed, so nothing overflows.
RECURSIVE LtFrac(_, _, _, _)
LtFrac(n1, d1, n2, d2) ==
  LET f1 == n1 \div d1
      f2 == n2 \div d2
      r1 == n1 % d1
      r2 == n2 % d2
  IN IF f1 # f2 THEN f1 < f2
     ELSE IF r2 = 0 THEN FALSE
     ELSE IF r1 = 0 THEN TRUE
     ELSE LtFrac(d2, r2, d1, r1)

Lt(a, b) == IsNum(a) /\ IsNum(b) /\ LtFrac(a.n, a.d, b.n, b.d)
Gt(a, b) == Lt(b, a)
Le(a, b) == IsNum(a) /\ IsNum(b) /\ ~LtFrac(b.n, b.d, a.n, a.d)
Ge(a, b) == Le(b, a)

\* f32::min, f32::max, f32::abs on representable values.
MinR(a, b) == IF ~IsNum(a) \/ ~IsNum(b) THEN NaR ELSE IF Lt(b, a) THEN b ELSE a
MaxR(a, b) == IF ~IsNum(a) \/ ~IsNum(b) THEN NaR ELSE IF Lt(a, b) THEN b ELSE a
AbsR(a) == IF IsNum(a) THEN [n |-> Abs(a.n), d |-> a.d] ELSE NaR

\* ------------------------------------------------------ physical constants
CP_WATER == 4186
CP_ICE == 2100
LATENT_FUSION == 334000
U_EFFECTIVE == 5
\* c_eff.abs() < 1e-9 and (temp_water - 0.0).abs() < 1e-3
CEFF_EPS == [n |-> 1, d |-> 1000000000]
FREEZE_TOL == [n |-> 1, d |-> 1000]

\* ------------------------------------------------------------------- state
VARIABLES
  state,              \* SystemState: mass_water, mass_ice, mass_air, temp_water, temp_ice
  outside_temp,
  time_seconds,
  running,
  time_scale,         \* 1, 2, 5 or 10
  init_water,
  init_ice,
  init_air,
  init_system_temp,
  init_outside_temp,
  edits,              \* init-field edits made so far (bounded by MaxEdits)
  pre,                \* the simulation as the last call of step found it (any other
                      \* operation sets it to the simulation it leaves behind)
  op                  \* the last operation and the dt it was given

vars == <<state, outside_temp, time_seconds, running, time_scale, init_water,
          init_ice, init_air, init_system_temp, init_outside_temp, edits, pre, op>>

inits == <<init_water, init_ice, init_air, init_system_temp, init_outside_temp>>

\* The fields of Simulation that step, reset and the toggle act on.
Sim ==
  [state |-> state, outside_temp |-> outside_temp, time_seconds |-> time_seconds,
   running |-> running, time_scale |-> time_scale]

\* ------------------------------------------------------------ SystemState
\* SystemState::system_temperature_equivalent
system_temperature_equivalent(s) ==
  LET sensible_ice == Mul(Mul(s.mass_ice, R(CP_ICE)), s.temp_ice)
      sensible_water == Mul(Mul(s.mass_water, R(CP_WATER)), s.temp_water)
      c_eff == Add(Mul(s.mass_ice, R(CP_ICE)), Mul(s.mass_water, R(CP_WATER)))
  IN IF ~IsNum(c_eff) THEN NaR
     ELSE IF Lt(AbsR(c_eff), CEFF_EPS) THEN Zero
     ELSE Div(Add(sensible_ice, sensible_water), c_eff)

\* The state the init_* fields seed: reset_from_init and the paused -> running
\* toggle both write exactly these five fields.
SeedState ==
  [mass_water |-> init_water, mass_ice |-> init_ice, mass_air |-> init_air,
   temp_water |-> init_system_temp, temp_ice |-> MinR(init_system_temp, Zero)]

\* ------------------------------------------------------- Simulation::step
\* The stages of step pass on c = [s |-> state so far, q |-> heat left,
\* ok |-> every value met so far was representable].

\* q = U_EFFECTIVE * (outside_temp - sys_temp) * dt
HeatFlow(s, out, dt) ==
  Mul(Mul(R(U_EFFECTIVE), Sub(out, system_temperature_equivalent(s))), dt)

\* A warm-ice stage that, when the heat does not suffice to reach 0 C, warms the
\* ice and still passes the heat on to the melting stage.
HeatWarmIce_HeatPassedOn(c) ==
  IF Gt(c.s.mass_ice, Zero) /\ Lt(c.s.temp_ice, Zero)
  THEN LET need == Mul(Mul(c.s.mass_ice, R(CP_ICE)), Sub(Zero, c.s.temp_ice))
       IN IF Ge(c.q, need)
          THEN [s |-> [c.s EXCEPT !.temp_ice = Zero],
                q |-> Sub(c.q, need),
                ok |-> c.ok /\ IsNum(need)]
          ELSE [s |-> [c.s EXCEPT !.temp_ice =
                         Add(@, Div(c.q, Mul(c.s.mass_ice, R(CP_ICE))))],
                q |-> c.q,
                ok |-> c.ok /\ IsNum(need)]
  ELSE c

\* Heating 1) warm ice to 0 C
HeatWarmIce(c) ==
  IF Gt(c.s.mass_ice, Zero) /\ Lt(c.s.temp_ice, Zero)
  THEN LET need == Mul(Mul(c.s.mass_ice, R(CP_ICE)), Sub(Zero, c.s.temp_ice))
       IN IF Ge(c.q, need)
          THEN [s |-> [c.s EXCEPT !.temp_ice = Zero],
                q |-> Sub(c.q, need),
                ok |-> c.ok /\ IsNum(need)]
          ELSE [s |-> [c.s EXCEPT !.temp_ice =
                         Add(@, Div(c.q, Mul(c.s.mass_ice, R(CP_ICE))))],
                q |-> Zero,
                ok |-> c.ok /\ IsNum(need)]
  ELSE c

\* A melting stage that takes the melted mass from the ice without adding it
\* to the water.
HeatMeltIce_WaterNotCredited(c) ==
  IF Gt(c.q, Zero) /\ Gt(c.s.mass_ice, Zero)
  THEN LET can_melt == Div(c.q, R(LATENT_FUSION))
           melt_mass == MinR(can_melt, c.s.mass_ice)
       IN [s |-> [c.s EXCEPT !.mass_ice = Sub(@, melt_mass)],
           q |-> Sub(c.q, Mul(melt_mass, R(LATENT_FUSION))),
           ok |-> c.ok /\ IsNum(melt_mass)]
  ELSE c

\* A melting stage that does not charge the latent heat, so that the heat that
\* melted part of the ice goes on to warm the water.
HeatMeltIce_HeatNotCharged(c) ==
  IF Gt(c.q, Zero) /\ Gt(c.s.mass_ice, Zero)
  THEN LET can_melt == Div(c.q, R(LATENT_FUSION))
           melt_mass == MinR(can_melt, c.s.mass_ice)
       IN [s |-> [c.s EXCEPT !.mass_ice = Sub(@, melt_mass),
                             !.mass_water = Add(@, melt_mass)],
           q |-> c.q,
           ok |-> c.ok /\ IsNum(melt_mass)]
  ELSE c

\* Heating 2) melt ice at 0 C
HeatMeltIce(c) ==
  IF Gt(c.q, Zero) /\ Gt(c.s.mass_ice, Zero)
  THEN LET can_melt == Div(c.q, R(LATENT_FUSION))
           melt_mass == MinR(can_melt, c.s.mass_ice)
       IN [s |-> [c.s EXCEPT !.mass_ice = Sub(@, melt_mass),
                             !.mass_water = Add(@, melt_mass)],
           q |-> Sub(c.q, Mul(melt_mass, R(LATENT_FUSION))),
           ok |-> c.ok /\ IsNum(melt_mass)]
  ELSE c

\* A water stage that forgets the specific heat: delta_t = q / mass_water.
HeatWater_PerKilogram(c) ==
  IF Gt(c.q, Zero) /\ Gt(c.s.mass_water, Zero)
  THEN LET delta_t == Div(c.q, c.s.mass_water)
       IN [c EXCEPT !.s.temp_water = Add(@, delta_t)]
  ELSE c

\* Heating 3) raise water temperature
HeatWater(c) ==
  IF Gt(c.q, Zero) /\ Gt(c.s.mass_water, Zero)
  THEN LET delta_t == Div(c.q, Mul(c.s.mass_water, R(CP_WATER)))
       IN [c EXCEPT !.s.temp_water = Add(@, delta_t)]
  ELSE c

\* Cooling 1) cool water to 0 C (c.q holds q_abs)
CoolWater(c) ==
  IF Gt(c.s.mass_water, Zero) /\ Gt(c.s.temp_water, Zero)
  THEN LET need == Mul(Mul(c.s.mass_water, R(CP_WATER)), Sub(c.s.temp_water, Zero))
           take == MinR(need, c.q)
       IN [s |-> [c.s EXCEPT !.temp_water =
                     Sub(@, Div(take, Mul(c.s.mass_water, R(CP_WATER))))],
           q |-> Sub(c.q, take),
           ok |-> c.ok /\ IsNum(take)]
  ELSE c

\* Cooling 2) freeze some water at 0 C
CoolFreezeWater(c) ==
  IF /\ Gt(c.q, Zero)
     /\ Gt(c.s.mass_water, Zero)
     /\ Lt(AbsR(Sub(c.s.temp_water, Zero)), FREEZE_TOL)
  THEN LET freeze_mass == MinR(Div(c.q, R(LATENT_FUSION)), c.s.mass_water)
       IN [s |-> [c.s EXCEPT !.mass_water = Sub(@, freeze_mass),
                             !.mass_ice = Add(@, freeze_mass)],
           q |-> Sub(c.q, Mul(freeze_mass, R(LATENT_FUSION))),
           ok |-> c.ok /\ IsNum(freeze_mass)]
  ELSE c

\* Cooling 3) lower ice temperature
CoolIce(c) ==
  IF Gt(c.q, Zero) /\ Gt(c.s.mass_ice, Zero)
  THEN LET delta_t == Div(c.q, Mul(c.s.mass_ice, R(CP_ICE)))
       IN [c EXCEPT !.s.temp_ice = Sub(@, delta_t)]
  ELSE c

\* "Ensure temp bounds and mass sanity"
ClampTemps(s) ==
  [s EXCEPT !.temp_ice = IF Gt(s.mass_ice, Zero) THEN MinR(@, Zero) ELSE Zero,
            !.temp_water = IF Gt(s.mass_water, Zero) THEN MaxR(@, Zero) ELSE Zero]

NumericState(s) ==
  /\ IsNum(s.mass_water) /\ IsNum(s.mass_ice) /\ IsNum(s.mass_air)
  /\ IsNum(s.temp_water) /\ IsNum(s.temp_ice)

\* The body of step once running is known to hold: dt is the scaled dt.
\* Returns [s |-> new state, ok |-> the whole computation was representable].
StepBody(s, out, dt) ==
  LET q == HeatFlow(s, out, dt)
      c0 == [s |-> s, q |-> q, ok |-> IsNum(q)]
      c == IF Gt(q, Zero) THEN HeatWater(HeatMeltIce(HeatWarmIce(c0)))
           ELSE IF Lt(q, Zero)
                THEN CoolIce(CoolFreezeWater(CoolWater([c0 EXCEPT !.q = Neg(q)])))
                ELSE c0
  IN [s |-> ClampTemps(c.s),
      ok |-> c.ok /\ IsNum(c.q) /\ NumericState(c.s)]

\* A step without the early return on !running.
step_WhilePaused(dt) ==
  /\ LET scaled == Mul(dt, R(time_scale))
         r == StepBody(state, outside_temp, scaled)
         t == Add(time_seconds, scaled)
     IN /\ r.ok /\ IsNum(t)
        /\ state' = r.s
        /\ time_seconds' = t
  /\ pre' = Sim
  /\ op' = [kind |-> "step", dt |-> dt]
  /\ UNCHANGED <<outside_temp, running, time_scale, inits, edits>>

\* Simulation::step(dt), called once per frame with the frame time.
step(dt) ==
  /\ IF ~running
     THEN UNCHANGED <<state, time_seconds>>
     ELSE LET scaled == Mul(dt, R(time_scale))
              r == StepBody(state, outside_temp, scaled)
              t == Add(time_seconds, scaled)
          IN /\ r.ok /\ IsNum(t)
             /\ state' = r.s
             /\ time_seconds' = t
  /\ pre' = Sim
  /\ op' = [kind |-> "step", dt |-> dt]
  /\ UNCHANGED <<outside_temp, running, time_scale, inits, edits>>

\* Simulation::reset_from_init (Reset button, R key)
reset_from_init ==
  /\ state' = SeedState
  /\ outside_temp' = init_outside_temp
  /\ time_seconds' = Zero
  /\ running' = FALSE
  /\ time_scale' = 1
  /\ UNCHANGED <<inits, edits>>
  /\ op' = [kind |-> "reset", dt |-> Zero]
  /\ pre' = Sim'

\* A toggle that applies the init_* fields on pausing as well.
toggle_running_AlwaysSeeds ==
  /\ state' = SeedState
  /\ outside_temp' = init_outside_temp
  /\ running' = ~running
  /\ UNCHANGED <<time_seconds, time_scale, inits, edits>>
  /\ op' = [kind |-> "toggle", dt |-> Zero]
  /\ pre' = Sim'

\* Start/Pause button and Enter key: "apply inits if paused", then flip running.
toggle_running ==
  /\ IF ~running
     THEN /\ state' = SeedState
          /\ outside_temp' = init_outside_temp
     ELSE UNCHANGED <<state, outside_temp>>
  /\ running' = ~running
  /\ UNCHANGED <<time_seconds, time_scale, inits, edits>>
  /\ op' = [kind |-> "toggle", dt |-> Zero]
  /\ pre' = Sim'

\* Speed button and S key: 1 -> 2 -> 5 -> 10 -> 1
cycle_time_scale ==
  /\ time_scale' = CASE time_scale = 1 -> 2
                     [] time_scale = 2 -> 5
                     [] time_scale = 5 -> 10
                     [] OTHER -> 1
  /\ UNCHANGED <<state, outside_temp, time_seconds, running, inits, edits>>
  /\ op' = [kind |-> "speed", dt |-> Zero]
  /\ pre' = Sim'

\* The +/- keys on the selected field (Tab selects any of the five): up and
\* down say which keys are held, shift whether a shift key is.  Masses move by
\* delta and are kept >= 0, temperatures move by delta * 5.
KeyDelta(up, down, shift) ==
  LET d1 == IF up THEN (IF shift THEN Rat(1, 10) ELSE Rat(1, 100)) ELSE Zero
  IN IF down THEN (IF shift THEN Rat(-1, 10) ELSE Rat(-1, 100)) ELSE d1

edit_init(field, up, down, shift) ==
  LET delta == KeyDelta(up, down, shift)
  IN /\ delta # Zero
     /\ edits < MaxEdits
     /\ edits' = edits + 1
     /\ init_water' = IF field = 0 THEN MaxR(Add(init_water, delta), Zero) ELSE init_water
     /\ init_ice' = IF field = 1 THEN MaxR(Add(init_ice, delta), Zero) ELSE init_ice
     /\ init_air' = IF field = 2 THEN MaxR(Add(init_air, delta), Zero) ELSE init_air
     /\ init_system_temp' =
          IF field = 3 THEN Add(init_system_temp, Mul(delta, R(5))) ELSE init_system_temp
     /\ init_outside_temp' =
          IF field = 4 THEN Add(init_outside_temp, Mul(delta, R(5))) ELSE init_outside_temp
     /\ UNCHANGED <<state, outside_temp, time_seconds, running, time_scale>>
     /\ op' = [kind |-> "edit", dt |-> Zero]
     /\ pre' = Sim'

\* ------------------------------------------------------------ specification
\* Simulation::new
NewState ==
  [mass_water |-> Rat(1, 2), mass_ice |-> Rat(1, 10), mass_air |-> Rat(1, 50),
   temp_water |-> R(5), temp_ice |-> MinR(R(5), Zero)]

new ==
  /\ state = NewState
  /\ outside_temp = R(25)
  /\ time_seconds = Zero
  /\ running = FALSE
  /\ time_scale = 1
  /\ init_water = Rat(1, 2)
  /\ init_ice = Rat(1, 10)
  /\ init_air = Rat(1, 50)
  /\ init_system_temp = R(5)
  /\ init_outside_temp = R(25)
  /\ edits = 0
  /\ pre = Sim
  /\ op = [kind |-> "new", dt |-> Zero]

FrameTimes == {Zero, R(ShortFrame), R(StallFrame)}

Step ==
  \E dt \in FrameTimes :
    /\ running => Lt(time_seconds, R(MaxTime))
    /\ step(dt)
Reset == reset_from_init
Toggle == toggle_running
Speed == cycle_time_scale

\* Key states explored: a plain Up (+0.01, or +0.05 degrees on a temperature)
\* and a Shift+Down (-0.1, or -0.5 degrees).
EditKeys == {<<TRUE, FALSE, FALSE>>, <<FALSE, TRUE, TRUE>>}
Edit ==
  \E field \in 0..4, k \in EditKeys : edit_init(field, k[1], k[2], k[3])

\* The driver from construction on: frames, buttons and keys in any order,
\* with at most MaxEdits edits of the init_* fields.
NextEdit == Step \/ Reset \/ Toggle \/ Speed \/ Edit

SpecEdit == new /\ [][NextEdit]_vars

\* The driver once the init_* fields have been set: Simulation::new followed
\* by editing of the init_* fields while paused (which never touches state), and
\* then frames, Start/Pause, Reset and Speed in any order.  Each configuration
\* is <<init_water, init_ice, init_air, init_system_temp, init_outside_temp>>;
\* the first is the constructor's.
InitConfigs ==
  { <<Rat(1, 2), Rat(1, 10), Rat(1, 50), R(5), R(25)>>,
    <<Rat(1, 2), Rat(1, 10), Rat(1, 50), R(5), R(-10)>>,
    <<Rat(1, 2), Rat(1, 10), Rat(1, 50), Zero, Zero>>,
    <<Rat(1, 2), Zero, Rat(1, 50), R(5), R(25)>>,
    <<Zero, Rat(1, 10), Rat(1, 50), R(-5), R(25)>>,
    <<Rat(1, 100), Zero, Rat(1, 50), R(5), R(-10)>>,
    <<Rat(1, 100), Rat(1, 100), Rat(1, 50), R(5), R(25)>>,
    <<Rat(1, 2), Zero, Rat(1, 50), R(-5), R(-5)>>,
    <<Zero, Zero, Rat(1, 50), R(5), Zero>> }

Init ==
  /\ state = NewState
  /\ outside_temp = R(25)
  /\ time_seconds = Zero
  /\ running = FALSE
  /\ time_scale = 1
  /\ \E cfg \in InitConfigs :
       /\ init_water = cfg[1]
       /\ init_ice = cfg[2]
       /\ init_air = cfg[3]
       /\ init_system_temp = cfg[4]
       /\ init_outside_temp = cfg[5]
  /\ edits = 0
  /\ pre = Sim
  /\ op = [kind |-> "new", dt |-> Zero]

Next == Step \/ Reset \/ Toggle \/ Speed

Spec == Init /\ [][Next]_vars

\* The melting scenario: init_water = 0, init_ice = 0.1, init_system_temp = -5,
\* init_outside_temp = 25, right after the paused -> running toggle, stepped with
\* frame times that are short against the ice's time constant (42 s).
MeltFrameTimes == {Rat(21, 5), Rat(21, 2), R(21)}

InitMelt ==
  /\ init_water = Zero
  /\ init_ice = Rat(1, 10)
  /\ init_air = Rat(1, 50)
  /\ init_system_temp = R(-5)
  /\ init_outside_temp = R(25)
  /\ state = SeedState
  /\ outside_temp = R(25)
  /\ time_seconds = Zero
  /\ running = TRUE
  /\ time_scale = 1
  /\ edits = 0
  /\ pre = Sim
  /\ op = [kind |-> "toggle", dt |-> Zero]

MeltStep ==
  \E dt \in MeltFrameTimes :
    /\ Lt(time_seconds, R(MeltHorizon))
    /\ step(dt)

SpecMelt == InitMelt /\ [][MeltStep]_vars

\* ------------------------------------------------------------------ claims
SignInvariants(s) ==
  /\ Gt(s.mass_ice, Zero) => Le(s.temp_ice, Zero)
  /\ Gt(s.mass_water, Zero) => Ge(s.temp_water, Zero)
  /\ s.mass_ice = Zero => s.temp_ice = Zero
  /\ s.mass_water = Zero => s.temp_water = Zero

\* The last operation was a step that found the simulation running.
StepRan == op.kind = "step" /\ pre.running
ScaledDt == Mul(op.dt, R(pre.time_scale))
\* The heat that step computed.
StepHeat == HeatFlow(pre.state, pre.outside_temp, ScaledDt)

\* mass_ice * Cp_ice + mass_water * Cp_water
HeatCapacity(s) ==
  Add(Mul(s.mass_ice, R(CP_ICE)), Mul(s.mass_water, R(CP_WATER)))

\* H = mass_ice * (Cp_ice * temp_ice - L) + mass_water * Cp_water * temp_water
Enthalpy(s) ==
  Add(Mul(s.mass_ice, Sub(Mul(R(CP_ICE), s.temp_ice), R(LATENT_FUSION))),
      Mul(Mul(s.mass_water, R(CP_WATER)), s.temp_water))

TotalMass(s) == Add(Add(s.mass_water, s.mass_ice), s.mass_air)

\* C1: the temperature sign invariants hold in every reachable state, after
\* every step and after every seeding (reset, paused -> running toggle).
C1_SignInvariantsAlways == SignInvariants(state)

\* C2: a running step with dt > 0, from a state that satisfies the sign
\* invariants and holds some ice or water, changes the enthalpy of ice + water
\* by exactly the heat q it computed.
C2_EnergyConserved ==
  LET dH == Sub(Enthalpy(state), Enthalpy(pre.state))
  IN ( /\ StepRan
       /\ Gt(op.dt, Zero)
       /\ SignInvariants(pre.state)
       /\ Gt(Add(pre.state.mass_ice, pre.state.mass_water), Zero)
       /\ IsNum(dH) /\ IsNum(StepHeat) )
     => dH = StepHeat

\* C3: a step (any dt, any time_scale, heating or cooling, running or not)
\* leaves mass_air alone and the total mass unchanged, and what ice loses water
\* gains.
C3_MassConserved ==
  op.kind = "step" =>
    /\ state.mass_air = pre.state.mass_air
    /\ IsNum(TotalMass(state)) /\ TotalMass(state) = TotalMass(pre.state)
    /\ Sub(pre.state.mass_ice, state.mass_ice)
         = Sub(state.mass_water, pre.state.mass_water)

\* C3's case: a running step that melted part of the ice.
C3_MeltedSome ==
  /\ StepRan
  /\ Lt(state.mass_ice, pre.state.mass_ice)
  /\ Gt(state.mass_ice, Zero)

\* C4: a running step whose scaled dt is <= 0 changes nothing at all.
C4_ZeroDtChangesNothing ==
  (StepRan /\ Le(ScaledDt, Zero)) => Sim = pre

\* C5: a running step taken with outside_temp equal to the equivalent system
\* temperature computes q = 0 and changes nothing but time_seconds.
C5_EquilibriumChangesNothing ==
  (StepRan /\ pre.outside_temp = system_temperature_equivalent(pre.state))
    => /\ StepHeat = Zero
       /\ state = pre.state
       /\ outside_temp = pre.outside_temp

\* C6: step called while paused changes no field of state, nor time_seconds,
\* outside_temp, time_scale or running, whatever dt and whatever the state.
C6_PausedStepChangesNothing ==
  (op.kind = "step" /\ ~pre.running) => Sim = pre

\* C6's case: a paused step with dt > 0 on a state that breaks the sign invariants.
C6_PausedStepOnOddState ==
  /\ op.kind = "step"
  /\ ~pre.running
  /\ Gt(op.dt, Zero)
  /\ ~SignInvariants(pre.state)

\* C7: a paused -> running toggle overwrites state and outside_temp from the
\* init_* fields and leaves time_seconds and time_scale alone; a running ->
\* paused toggle only flips running; an init-field edit changes nothing of the
\* simulation (so edits reach state only through a later toggle or reset).
C7_ToggleSemantics ==
  [][ /\ (op'.kind = "toggle" /\ ~running) =>
           /\ running'
           /\ state'.mass_water = init_water
           /\ state'.mass_ice = init_ice
           /\ state'.mass_air = init_air
           /\ state'.temp_water = init_system_temp
           /\ state'.temp_ice = MinR(init_system_temp, Zero)
           /\ outside_temp' = init_outside_temp
           /\ time_seconds' = time_seconds
           /\ time_scale' = time_scale
      /\ (op'.kind = "toggle" /\ running) =>
           /\ ~running'
           /\ state' = state
           /\ outside_temp' = outside_temp
           /\ time_seconds' = time_seconds
           /\ time_scale' = time_scale
      /\ op'.kind = "edit" => Sim' = Sim ]_vars

\* C7's case: a paused -> running toggle has just reseeded, from init fields
\* edited since the run began, a simulation that had already run for a while.
C7_ReseededAfterRun ==
  /\ op.kind = "toggle"
  /\ running
  /\ Gt(time_seconds, Zero)
  /\ edits > 0
  /\ state.mass_water = init_water
  /\ state.temp_water = init_system_temp

\* C9: within one running step from a state that satisfies the sign invariants,
\* heating melts ice only if temp_ice ends at 0 and warms water only if no ice
\* is left; cooling freezes water only if temp_water ends at 0 and cools ice
\* only if no water is left.
C9_PriorityLadder ==
  (StepRan /\ SignInvariants(pre.state)) =>
    /\ Gt(StepHeat, Zero) =>
         /\ Lt(state.mass_ice, pre.state.mass_ice) => state.temp_ice = Zero
         /\ Gt(state.temp_water, pre.state.temp_water) => state.mass_ice = Zero
    /\ Lt(StepHeat, Zero) =>
         /\ Lt(state.mass_water, pre.state.mass_water) => state.temp_water = Zero
         /\ Lt(state.temp_ice, pre.state.temp_ice) => state.mass_water = Zero

\* C9's case: one heating step that melted all the ice and went on to warm the water.
C9_MeltedAllAndWarmed ==
  /\ StepRan
  /\ SignInvariants(pre.state)
  /\ Gt(StepHeat, Zero)
  /\ Gt(pre.state.mass_ice, Zero)
  /\ state.mass_ice = Zero
  /\ Gt(state.temp_water, pre.state.temp_water)

\* Whether a step kept the equivalent system temperature on its side of outside_temp.
StaysOnSide ==
  LET before == system_temperature_equivalent(pre.state)
      after == system_temperature_equivalent(state)
  IN IsNum(after) =>
       /\ Le(before, pre.outside_temp) => Le(after, pre.outside_temp)
       /\ Ge(before, pre.outside_temp) => Ge(after, pre.outside_temp)

ShortStep ==
  /\ Ge(HeatCapacity(pre.state), CEFF_EPS)
  /\ Le(Mul(R(U_EFFECTIVE), ScaledDt), HeatCapacity(pre.state))
  /\ Le(AbsR(pre.state.temp_water), R(75))
  /\ Le(AbsR(pre.state.temp_ice), R(75))
  /\ Le(AbsR(pre.outside_temp), R(75))

C8_MeltingPhases ==
  /\ TotalMass(state) = Rat(3, 25)
  /\ Lt(state.temp_ice, Zero) =>
       (state.mass_ice = Rat(1, 10) /\ state.mass_water = Zero)
  /\ Lt(state.mass_ice, Rat(1, 10)) => state.temp_ice = Zero
  /\ Gt(state.mass_ice, Zero) => Le(state.temp_water, Zero)
  /\ Le(state.temp_water, outside_temp)
  /\ Ge(time_seconds, R(276)) => state.mass_ice = Zero
  /\ op.kind = "step" =>
       /\ Ge(state.temp_ice, pre.state.temp_ice)
       /\ Le(state.temp_ice, Zero)
       /\ Le(state.mass_ice, pre.state.mass_ice)
       /\ Sub(state.mass_water, pre.state.mass_water)
            = Sub(pre.state.mass_ice, state.mass_ice)
       /\ Ge(state.temp_water, pre.state.temp_water)

\* C8's case: the run has reached the third phase, and the step just taken
\* warmed the water after all the ice had melted in an earlier step.
C8_ReachedThirdPhase ==
  /\ op.kind = "step"
  /\ pre.state.mass_ice = Zero
  /\ state.mass_water = Rat(1, 10)
  /\ Gt(pre.state.temp_water, Zero)
  /\ Gt(state.temp_water, pre.state.temp_water)

====
